---- MODULE Spec2Model ----
(***************************************************************************)
(* A model of SmartInsiderIntentionUniverseAlgorithm                       *)
(* (src/SmartInsiderIntentionUniverseSelectionAlgorithm.py): Initialize,   *)
(* UniverseSelection and OnSecuritiesChanged, run by the host engine.      *)
(*                                                                         *)
(* Nullable numbers are None (<<>>) or <<n>>.  Percentage is kept as an    *)
(* integer count of 10^-7 units (0.005 is 50000, 0.0050001 is 50001); the  *)
(* other numbers are whole.                                                *)
(***************************************************************************)
EXTENDS Integers, Sequences, FiniteSets

VARIABLES
    pc,           \* the statement about to run ("idle": the engine has control)
    resolution,   \* UniverseSettings.Resolution, None until the algorithm sets it
    startDate,    \* SetStartDate's argument, None until set
    endDate,      \* SetEndDate's argument, None until set
    cash,         \* SetCash's argument, None until set
    universes,    \* the universes registered with AddUniverse, in order
    historyCalls, \* the History queries issued, in order
    history,      \* Initialize's local: the sequence of per-date collections
    inspected,    \* how many entries of history the for loop has taken
    err,          \* the exception raised, None when none
    arg,          \* the collection the engine passed to UniverseSelection
    data,         \* UniverseSelection's parameter, as the iterations see it
    it,           \* position of the running iterator over data
    result,       \* the list the comprehension builds and returns
    ret,          \* what the callback that ran last handed back to the engine
    log,          \* the lines the current callback has logged
    changes,      \* the record the engine passed to OnSecuritiesChanged
    seen          \* an earlier call of UniverseSelection: <<input, output>>

vars == <<pc, resolution, startDate, endDate, cash, universes, historyCalls,
          history, inspected, err, arg, data, it, result, ret, log, changes,
          seen>>

config == <<resolution, startDate, endDate, cash>>
engine == <<universes, historyCalls>>
initFrame == <<history, inspected>>
selFrame == <<arg, data, it, result>>

\* ------------------------------------------------------------ bounds
MaxHistLen == 11
MaxEntryLen == 2
MaxIrregular == 2
MaxData == 2

\* --------------------------------------------------- program constants
ExpectedHistoryCount == 10
HistoryDays == 10
StartingCash == 100000
PercentageThreshold == 50000
USDMarketCapThreshold == 100000000

\* ------------------------------------------------------------ values
None == <<>>
Some(v) == <<v>>
Unset == <<"unset">>
PyNone == <<"None">>
PyList(l) == <<"list", l>>

Digit(d) ==
    CASE d = 0 -> "0" [] d = 1 -> "1" [] d = 2 -> "2" [] d = 3 -> "3"
      [] d = 4 -> "4" [] d = 5 -> "5" [] d = 6 -> "6" [] d = 7 -> "7"
      [] d = 8 -> "8" [] d = 9 -> "9"

RECURSIVE IntToStr(_)
IntToStr(n) ==
    IF n < 10 THEN Digit(n) ELSE IntToStr(n \div 10) \o Digit(n % 10)

\* The last `width` decimal digits of n, zero-padded on the left.
RECURSIVE Padded(_, _)
Padded(n, width) ==
    IF width = 0 THEN "" ELSE Padded(n \div 10, width - 1) \o Digit(n % 10)

\* str() of a fraction below 1 held in 10^-7 units: "0." and its seven
\* digits, the trailing zeros dropped down to one digit.
RECURSIVE FracDigits(_, _)
FracDigits(n, width) ==
    IF width > 1 /\ n % 10 = 0 THEN FracDigits(n \div 10, width - 1)
    ELSE Padded(n, width)

\* f"{x}" of a nullable whole number
StrOf(v) == IF v = None THEN "None" ELSE IntToStr(v[1])

\* f"{x}" of a nullable fraction
StrOfFraction(v) ==
    IF v = None THEN "None" ELSE "0." \o FracDigits(v[1], 7)

\* ------------------------------------------------ the engine's inputs
\* A per-date collection of the history: only its length is read.
Entry(size) == [k \in 1..size |-> "record"]

\* The histories of n entries of which at most k are not a single record.
RECURSIVE HistoriesOf(_, _)
HistoriesOf(n, k) ==
    IF n = 0 THEN {<<>>}
    ELSE {Append(h, Entry(1)) : h \in HistoriesOf(n - 1, k)}
         \cup (IF k = 0 THEN {}
               ELSE {Append(h, Entry(s)) :
                        h \in HistoriesOf(n - 1, k - 1),
                        s \in (0..MaxEntryLen) \ {1}})

\* What the History query may return.
Histories == UNION {HistoriesOf(n, MaxIrregular) : n \in 0..MaxHistLen}

Symbols == {"AAPL", "MSFT"}
PercentageValues ==
    {None, Some(0), Some(PercentageThreshold), Some(PercentageThreshold + 1)}
USDMarketCapValues ==
    {None, Some(0), Some(USDMarketCapThreshold), Some(USDMarketCapThreshold + 1)}

\* The universe data points (SmartInsiderIntentionUniverse records).
Datum ==
    [Symbol : Symbols,
     Amount : {Some(2500)},
     AmountValue : {Some(180000)},
     Percentage : PercentageValues,
     MinimumPrice : {None},
     MaximumPrice : {Some(72)},
     USDMarketCap : USDMarketCapValues]

RECURSIVE SeqsUpTo(_, _)
SeqsUpTo(S, n) ==
    IF n = 0 THEN {<<>>}
    ELSE LET shorter == SeqsUpTo(S, n - 1)
         IN  shorter \cup {Append(q, e) : q \in {r \in shorter : Len(r) = n - 1},
                                          e \in S}

\* The collections the engine may pass to one call of UniverseSelection.
Inputs == SeqsUpTo(Datum, MaxData)

\* The data points of the engine's universe updates while the algorithm
\* runs: both symbols qualifying, and one that does not.
UpdateDatum ==
    {d \in Datum :
        /\ d.USDMarketCap = Some(USDMarketCapThreshold + 1)
        /\ \/ d.Percentage = Some(PercentageThreshold + 1)
           \/ d.Percentage = None /\ d.Symbol = "AAPL"}

Updates == SeqsUpTo(UpdateDatum, MaxData)

\* The SecurityChanges records the engine may notify.
SecurityChanges ==
    {[added |-> <<"AAPL">>, removed |-> <<>>],
     [added |-> <<"MSFT">>, removed |-> <<"AAPL">>],
     [added |-> <<>>, removed |-> <<"MSFT">>]}

NoChanges == [added |-> <<>>, removed |-> <<>>]

\* ------------------------------------------------------------ Init
Init ==
    /\ pc = "init19"
    /\ resolution = None
    /\ startDate = None
    /\ endDate = None
    /\ cash = None
    /\ universes = <<>>
    /\ historyCalls = <<>>
    /\ history = <<>>
    /\ inspected = 0
    /\ err = None
    /\ arg = <<>>
    /\ data = <<>>
    /\ it = 0
    /\ result = <<>>
    /\ ret = Unset
    /\ log = <<>>
    /\ changes = NoChanges
    /\ seen = Unset

\* ------------------------------------------------------ Initialize
\* line 19: self.UniverseSettings.Resolution = Resolution.Daily
SetResolution ==
    /\ pc = "init19"
    /\ resolution' = Some("Daily")
    /\ pc' = "init21"
    /\ UNCHANGED <<startDate, endDate, cash, engine, initFrame, err,
                   selFrame, ret, log, changes, seen>>

\* line 21: self.SetStartDate(2022, 2, 14)
SetStartDate ==
    /\ pc = "init21"
    /\ startDate' = Some(<<2022, 2, 14>>)
    /\ pc' = "init22"
    /\ UNCHANGED <<resolution, endDate, cash, engine, initFrame, err,
                   selFrame, ret, log, changes, seen>>

\* line 22: self.SetEndDate(2022, 2, 18)
SetEndDate ==
    /\ pc = "init22"
    /\ endDate' = Some(<<2022, 2, 18>>)
    /\ pc' = "init23"
    /\ UNCHANGED <<resolution, startDate, cash, engine, initFrame, err,
                   selFrame, ret, log, changes, seen>>

\* line 23: self.SetCash(100000)
SetCash ==
    /\ pc = "init23"
    /\ cash' = Some(StartingCash)
    /\ pc' = "init26"
    /\ UNCHANGED <<resolution, startDate, endDate, engine, initFrame, err,
                   selFrame, ret, log, changes, seen>>

\* line 26: universe = self.AddUniverse(SmartInsiderIntentionUniverse,
\*                                      self.UniverseSelection)
AddUniverse ==
    /\ pc = "init26"
    /\ universes' = Append(universes,
                           [type |-> "SmartInsiderIntentionUniverse",
                            selector |-> "UniverseSelection",
                            resolution |-> resolution])
    /\ pc' = "init28"
    /\ UNCHANGED <<config, historyCalls, initFrame, err, selFrame, ret, log,
                   changes, seen>>

\* line 28: history = self.History(universe, TimeSpan(10, 0, 0, 0))
History ==
    /\ pc = "init28"
    /\ \E h \in Histories : history' = h
    /\ historyCalls' = Append(historyCalls,
                              [universe |-> Len(universes),
                               span |-> <<HistoryDays, 0, 0, 0>>])
    /\ pc' = "init29"
    /\ UNCHANGED <<config, universes, inspected, err, selFrame, ret, log,
                   changes, seen>>

\* A slip: the message carries the expected count, not the actual one.
CountMessageExpected(count) ==
    "Unexpected history count " \o IntToStr(ExpectedHistoryCount) \o "!"

\* line 30: f"Unexpected history count {len(history)}!"
CountMessage(count) ==
    "Unexpected history count " \o IntToStr(count) \o "!"

\* A slip: the failing count check undoes the universe registration.
CheckCountRollback ==
    /\ pc = "init29"
    /\ IF Len(history) # ExpectedHistoryCount
       THEN /\ err' = Some(CountMessage(Len(history)))
            /\ universes' = <<>>
            /\ pc' = "raised"
       ELSE /\ err' = err
            /\ universes' = universes
            /\ pc' = "init32"
    /\ UNCHANGED <<config, historyCalls, initFrame, selFrame, ret, log,
                   changes, seen>>

\* lines 29-30: if len(history) != 10: raise ValueError(...)
CheckCount ==
    /\ pc = "init29"
    /\ IF Len(history) # ExpectedHistoryCount
       THEN /\ err' = Some(CountMessage(Len(history)))
            /\ pc' = "raised"
       ELSE /\ err' = err
            /\ pc' = "init32"
    /\ UNCHANGED <<config, engine, initFrame, selFrame, ret, log, changes,
                   seen>>

\* A slip: <= for <, so that a single record counts as none.
AtMostOneRecord(dataForDate) == Len(dataForDate) <= 1

\* line 33: len(dataForDate) < 1
NoRecord(dataForDate) == Len(dataForDate) < 1

\* lines 32-34: the for loop takes the next dataForDate and tests its length
CheckEntry ==
    /\ pc = "init32"
    /\ inspected < Len(history)
    /\ inspected' = inspected + 1
    /\ IF NoRecord(history[inspected + 1])
       THEN /\ err' = Some("Unexpected historical universe data!")
            /\ pc' = "raised"
       ELSE /\ err' = err
            /\ pc' = "init32"
    /\ UNCHANGED <<config, engine, history, selFrame, ret, log, changes,
                   seen>>

\* line 32: the for loop is exhausted; Initialize is at its end
EndOfHistory ==
    /\ pc = "init32"
    /\ inspected = Len(history)
    /\ pc' = "initialized"
    /\ UNCHANGED <<config, engine, initFrame, err, selFrame, ret, log,
                   changes, seen>>

\* Initialize returns: its locals are released and the engine takes over.
InitializeReturns ==
    /\ pc = "initialized"
    /\ history' = <<>>
    /\ inspected' = 0
    /\ pc' = "idle"
    /\ UNCHANGED <<config, engine, err, selFrame, ret, log, changes, seen>>

Initialize ==
    \/ SetResolution
    \/ SetStartDate
    \/ SetEndDate
    \/ SetCash
    \/ AddUniverse
    \/ History
    \/ CheckCount
    \/ CheckEntry
    \/ EndOfHistory
    \/ InitializeReturns

\* ----------------------------------------------- UniverseSelection
\* A slip: MinimumPrice and MaximumPrice change places.
LinePricesSwapped(d) ==
    d.Symbol \o "," \o StrOf(d.Amount) \o "," \o StrOf(d.AmountValue)
      \o "," \o StrOfFraction(d.Percentage) \o "," \o StrOf(d.MaximumPrice)
      \o "," \o StrOf(d.MinimumPrice) \o "," \o StrOf(d.USDMarketCap)

\* line 38: the f-string: the seven fields joined by commas
Line(d) ==
    d.Symbol \o "," \o StrOf(d.Amount) \o "," \o StrOf(d.AmountValue)
      \o "," \o StrOfFraction(d.Percentage) \o "," \o StrOf(d.MinimumPrice)
      \o "," \o StrOf(d.MaximumPrice) \o "," \o StrOf(d.USDMarketCap)

\* A slip: `v != 0` for the truth value of v, which None passes.
NotZero(v) == v = None \/ v[1] # 0

\* Python's truth value of a nullable number: None and zero are false.
Truthy(v) == v # None /\ v[1] # 0

\* A slip: >= for >.
GreaterOrEqual(v, t) ==
    IF v = None THEN "TypeError"
    ELSE IF v[1] >= t THEN "True" ELSE "False"

\* Python's v > t: comparing None with a number raises TypeError.
Greater(v, t) ==
    IF v = None THEN "TypeError"
    ELSE IF v[1] > t THEN "True" ELSE "False"

\* lines 42-43: the condition of the comprehension; `and` evaluates its
\* right operand only when the left one is true.
Condition(d) ==
    IF ~Truthy(d.Percentage) THEN "False"
    ELSE LET above == Greater(d.Percentage, PercentageThreshold)
         IN  IF above # "True" THEN above
             ELSE IF ~Truthy(d.USDMarketCap) THEN "False"
             ELSE Greater(d.USDMarketCap, USDMarketCapThreshold)

\* A slip: data read as a one-shot iterator, which the second loop finds
\* where the first one left it.
OneShotIterator(consumed) == consumed + 1

\* `for ... in data` takes a new iterator over data, at its first item,
\* however many items earlier iterations consumed.
NewIterator(consumed) == 1

\* A slip: the symbols are gathered in a list that outlives the call.
KeptList(earlier) == earlier

\* line 41: the comprehension builds a new list, whatever list an earlier
\* call built.
NewList(earlier) == <<>>

\* A slip: a symbol already gathered is not gathered again.
CollectOnce(list, symbol) ==
    IF \E k \in DOMAIN list : list[k] = symbol THEN list
    ELSE Append(list, symbol)

\* line 41: the comprehension adds d.Symbol at the end of its list
Collect(list, symbol) == Append(list, symbol)

\* lines 41-43 on their own: the list the comprehension makes of a collection
RECURSIVE Comprehension(_)
Comprehension(collection) ==
    IF collection = <<>> THEN <<>>
    ELSE LET front == Comprehension(SubSeq(collection, 1, Len(collection) - 1))
             d == collection[Len(collection)]
         IN  IF Condition(d) = "True" THEN Collect(front, d.Symbol)
             ELSE front

\* line 36: the engine calls UniverseSelection(data)
CallUniverseSelection(d) ==
    /\ pc = "idle"
    /\ arg' = d
    /\ data' = d
    /\ it' = NewIterator(0)
    /\ log' = <<>>
    /\ ret' = Unset
    /\ changes' = NoChanges
    /\ pc' = "sel37"
    /\ UNCHANGED <<config, engine, initFrame, err, result, seen>>

\* lines 37-38: for datum in data: self.Log(...)
LogDatum ==
    /\ pc = "sel37"
    /\ it <= Len(data)
    /\ log' = Append(log, Line(data[it]))
    /\ it' = it + 1
    /\ UNCHANGED <<pc, config, engine, initFrame, err, arg, data, result,
                   ret, changes, seen>>

\* line 37 is exhausted; line 41 starts the comprehension
BeginComprehension ==
    /\ pc = "sel37"
    /\ it > Len(data)
    /\ it' = NewIterator(it - 1)
    /\ result' = NewList(result)
    /\ pc' = "sel41"
    /\ UNCHANGED <<config, engine, initFrame, err, arg, data, ret, log,
                   changes, seen>>

\* lines 41-43: the comprehension takes the next d and tests it
FilterDatum ==
    /\ pc = "sel41"
    /\ it <= Len(data)
    /\ it' = it + 1
    /\ LET outcome == Condition(data[it])
       IN  IF outcome = "TypeError"
           THEN /\ err' = Some("TypeError")
                /\ pc' = "sel_raised"
                /\ result' = result
           ELSE /\ err' = err
                /\ pc' = pc
                /\ result' = IF outcome = "True"
                             THEN Collect(result, data[it].Symbol)
                             ELSE result
    /\ UNCHANGED <<config, engine, initFrame, arg, data, ret, log, changes,
                   seen>>

\* line 41: return the list; the locals are released.  seen may keep this
\* call's input and output for comparison with a later call.
ReturnSelection ==
    /\ pc = "sel41"
    /\ it > Len(data)
    /\ ret' = PyList(result)
    /\ data' = <<>>
    /\ it' = 0
    /\ pc' = "idle"
    /\ seen' \in {seen, <<arg, result>>}
    /\ UNCHANGED <<config, engine, initFrame, err, arg, result, log,
                   changes>>

UniverseSelection ==
    \/ LogDatum
    \/ BeginComprehension
    \/ FilterDatum
    \/ ReturnSelection

\* --------------------------------------------- OnSecuritiesChanged
RECURSIVE Joined(_)
Joined(tickers) ==
    IF tickers = <<>> THEN ""
    ELSE IF Len(tickers) = 1 THEN tickers[1]
    ELSE tickers[1] \o "," \o Joined(Tail(tickers))

\* line 46: changes.ToString(), the engine's rendering of the record
ToString(c) ==
    "SecurityChanges: Added: " \o Joined(c.added)
      \o " Removed: " \o Joined(c.removed)

\* line 45: the engine calls OnSecuritiesChanged(changes)
CallOnSecuritiesChanged(c) ==
    /\ pc = "idle"
    /\ changes' = c
    /\ log' = <<>>
    /\ ret' = Unset
    /\ pc' = "osc46"
    /\ UNCHANGED <<config, engine, initFrame, err, selFrame, seen>>

\* A slip: the record is logged twice.
OnSecuritiesChangedTwice ==
    /\ pc = "osc46"
    /\ log' = Append(Append(log, ToString(changes)), ToString(changes))
    /\ ret' = PyNone
    /\ pc' = "idle"
    /\ UNCHANGED <<config, engine, initFrame, err, selFrame, changes, seen>>

\* line 46: self.Log(changes.ToString()); the function ends, returning None
OnSecuritiesChanged ==
    /\ pc = "osc46"
    /\ log' = Append(log, ToString(changes))
    /\ ret' = PyNone
    /\ pc' = "idle"
    /\ UNCHANGED <<config, engine, initFrame, err, selFrame, changes, seen>>

\* ------------------------------------------------- specifications
\* The algorithm under the engine: Initialize, then the callbacks.
Next ==
    \/ Initialize
    \/ \E d \in Updates : CallUniverseSelection(d)
    \/ UniverseSelection
    \/ \E c \in SecurityChanges : CallOnSecuritiesChanged(c)
    \/ OnSecuritiesChanged

Spec == Init /\ [][Next]_vars

\* One call of UniverseSelection on any input collection.
InitSelection ==
    /\ pc = "sel37"
    /\ resolution = Some("Daily")
    /\ startDate = Some(<<2022, 2, 14>>)
    /\ endDate = Some(<<2022, 2, 18>>)
    /\ cash = Some(StartingCash)
    /\ universes = <<[type |-> "SmartInsiderIntentionUniverse",
                      selector |-> "UniverseSelection",
                      resolution |-> Some("Daily")]>>
    /\ historyCalls = <<[universe |-> 1, span |-> <<HistoryDays, 0, 0, 0>>]>>
    /\ history = <<>>
    /\ inspected = 0
    /\ err = None
    /\ arg \in Inputs
    /\ data = arg
    /\ it = NewIterator(0)
    /\ result = <<>>
    /\ ret = Unset
    /\ log = <<>>
    /\ changes = NoChanges
    /\ seen = Unset

SpecSelection == InitSelection /\ [][UniverseSelection]_vars

\* ------------------------------------------------------- Initialize
\* The history, as Initialize holds it, breaks what the validation asks for.
Malformed ==
    \/ Len(history) # 10
    \/ \E i \in DOMAIN history : Len(history[i]) = 0

\* C2: Initialize raises if and only if the history has not exactly 10 dated
\* entries or one of them holds no record: it ends raised only on such a
\* history, reaches its end only on a history of 10 entries that all hold a
\* record, and passes an entry in its loop only while the count is 10 and
\* every entry taken so far holds a record.
RaisesIffHistoryMalformed ==
    /\ pc = "raised" => Malformed
    /\ pc = "initialized" => ~Malformed
    /\ pc = "init32" =>
          /\ Len(history) = 10
          /\ \A i \in 1..inspected : Len(history[i]) >= 1

\* C2: Initialize has raised on a history of 10 entries, one of them empty.
RaisedOnEmptyEntry ==
    /\ pc = "raised"
    /\ Len(history) = 10
    /\ \E i \in DOMAIN history : Len(history[i]) = 0
    /\ \E i \in DOMAIN history : Len(history[i]) = 2

BeforeResolution == {"init19"}
BeforeStartDate == BeforeResolution \cup {"init21"}
BeforeEndDate == BeforeStartDate \cup {"init22"}
BeforeCash == BeforeEndDate \cup {"init23"}
BeforeUniverse == BeforeCash \cup {"init26"}
BeforeHistory == BeforeUniverse \cup {"init28"}

\* C9: Initialize runs in a fixed order: resolution daily, start date
\* 2022-02-14, end date 2022-02-18, cash 100000, then the universe is
\* registered once, then the history is queried once over 10 days, then the
\* validation runs.  Each setting is in place from its statement on and
\* stays, also when Initialize has raised; nothing is validated before the
\* query, and the query does not precede the registration.
InitializeInOrder ==
    /\ resolution = IF pc \in BeforeResolution THEN None ELSE Some("Daily")
    /\ startDate = IF pc \in BeforeStartDate THEN None
                   ELSE Some(<<2022, 2, 14>>)
    /\ endDate = IF pc \in BeforeEndDate THEN None ELSE Some(<<2022, 2, 18>>)
    /\ cash = IF pc \in BeforeCash THEN None ELSE Some(100000)
    /\ universes =
          IF pc \in BeforeUniverse THEN <<>>
          ELSE <<[type |-> "SmartInsiderIntentionUniverse",
                  selector |-> "UniverseSelection",
                  resolution |-> Some("Daily")]>>
    /\ historyCalls =
          IF pc \in BeforeHistory THEN <<>>
          ELSE <<[universe |-> 1, span |-> <<10, 0, 0, 0>>]>>
    /\ (err # None \/ inspected > 0 \/ history # <<>>) =>
          /\ Len(historyCalls) = 1
          /\ Len(universes) = 1

\* C9: Initialize has raised with the settings and the registration in place.
RaisedAfterRegistration ==
    /\ pc = "raised"
    /\ err # None
    /\ cash = Some(100000)
    /\ Len(universes) = 1
    /\ Len(historyCalls) = 1

\* The decimal numeral of a count, written out.
CountText(n) ==
    CASE n = 0 -> "0" [] n = 1 -> "1" [] n = 2 -> "2" [] n = 3 -> "3"
      [] n = 4 -> "4" [] n = 5 -> "5" [] n = 6 -> "6" [] n = 7 -> "7"
      [] n = 8 -> "8" [] n = 9 -> "9" [] n = 10 -> "10" [] n = 11 -> "11"
      [] n = 12 -> "12" [] n = 13 -> "13" [] n = 14 -> "14"

\* C10: the count check comes first: on a history of N # 10 entries the
\* error is "Unexpected history count N!" and no entry has been inspected,
\* empty entries or not; on a history of 10 entries the error is
\* "Unexpected historical universe data!", raised at the first empty entry,
\* the last one inspected.
CountCheckFirst ==
    pc = "raised" =>
        IF Len(history) # 10
        THEN /\ err = Some("Unexpected history count "
                           \o CountText(Len(history)) \o "!")
             /\ inspected = 0
        ELSE /\ err = Some("Unexpected historical universe data!")
             /\ inspected \in DOMAIN history
             /\ Len(history[inspected]) = 0
             /\ \A i \in 1..(inspected - 1) : Len(history[i]) >= 1

\* C10: the count error was raised on 11 entries, one of them empty, with
\* no entry inspected.
RaisedOnCountDespiteEmptyEntry ==
    /\ pc = "raised"
    /\ Len(history) = 11
    /\ \E i \in DOMAIN history : Len(history[i]) = 0
    /\ err = Some("Unexpected history count 11!")
    /\ inspected = 0

\* ------------------------------------------------ UniverseSelection
\* A data point qualifies: Percentage is present and above 0.005 (50000
\* units of 10^-7) and USDMarketCap is present and above 100,000,000.
Qualifies(d) ==
    /\ d.Percentage # None
    /\ d.Percentage[1] > 50000
    /\ d.USDMarketCap # None
    /\ d.USDMarketCap[1] > 100000000

\* The comprehension is about to take the data point at position it.
TakingDatum == pc = "sel41" /\ it <= Len(data)

\* UniverseSelection has returned its list to the engine.
Returned == pc = "idle" /\ ret = PyList(result)

\* C1: the comprehension adds the Symbol of the data point it takes if and
\* only if the point qualifies; otherwise it leaves its list as it is.
SelectedIffQualifies ==
    [][TakingDatum =>
          IF Qualifies(data[it])
          THEN result' = Append(result, data[it].Symbol)
          ELSE result' = result]_vars

\* C1: a call has returned that left out a point at a threshold (the other
\* field above its own) and took a point just above both.
ReturnedAtThresholds ==
    /\ Returned
    /\ \E i, j \in DOMAIN arg :
          /\ arg[i].Percentage = Some(50000)
          /\ arg[i].USDMarketCap = Some(100000001)
          /\ arg[i].Symbol = "AAPL"
          /\ arg[j].Percentage = Some(50001)
          /\ arg[j].USDMarketCap = Some(100000001)
          /\ arg[j].Symbol = "MSFT"
    /\ result = <<"MSFT">>

\* C3: a data point whose Percentage or USDMarketCap is None is left out,
\* whatever the other field, and taking it raises nothing: the comparison
\* of None with a number, a TypeError, is not evaluated.
NullFieldExcludedWithoutError ==
    [][(TakingDatum /\ (\/ data[it].Percentage = None
                        \/ data[it].USDMarketCap = None)) =>
          /\ result' = result
          /\ pc' = "sel41"
          /\ err' = None]_vars

\* C3: a call has returned an empty list for a point without Percentage and
\* a point without USDMarketCap, the other field of each above its threshold.
ReturnedWithNullFields ==
    /\ Returned
    /\ err = None
    /\ \E i, j \in DOMAIN arg :
          /\ arg[i].Percentage = None
          /\ arg[i].USDMarketCap = Some(100000001)
          /\ arg[j].Percentage = Some(50001)
          /\ arg[j].USDMarketCap = None
    /\ result = <<>>

\* The input positions of the qualifying data points.
QualifyingPositions == {i \in DOMAIN arg : Qualifies(arg[i])}

\* The position of the k-th qualifying data point.
KthQualifying(k) ==
    CHOOSE i \in QualifyingPositions :
        Cardinality({j \in QualifyingPositions : j <= i}) = k

\* C4: the returned list holds one Symbol per qualifying data point, in input
\* order, repeated Symbols kept: its k-th element is the Symbol of the k-th
\* qualifying point, and it holds nothing else.
ReturnsQualifyingSymbolsInOrder ==
    Returned =>
        /\ Len(result) = Cardinality(QualifyingPositions)
        /\ \A k \in DOMAIN result : result[k] = arg[KthQualifying(k)].Symbol

\* C4: a call has returned the same Symbol twice, for two qualifying points
\* that carry it.
ReturnedRepeatedSymbol ==
    /\ Returned
    /\ Len(arg) >= 2
    /\ arg[1].Symbol = "MSFT"
    /\ arg[2].Symbol = "MSFT"
    /\ result = <<"MSFT", "MSFT">>

\* C6: the logging pass leaves the collection as the engine passed it, and
\* the comprehension reads all of it: from start to end it has taken exactly
\* the points before its position, and the list returned is the list the
\* comprehension alone makes of the collection passed.
LoggingLeavesSelectionAlone ==
    /\ pc \in {"sel37", "sel41"} => data = arg
    /\ pc = "sel41" => result = Comprehension(SubSeq(arg, 1, it - 1))
    /\ Returned => result = Comprehension(arg)

\* C6: a call has returned two Symbols after logging two data points.
ReturnedAllAfterLogging ==
    /\ Returned
    /\ Len(log) = 2
    /\ Len(arg) = 2
    /\ Len(result) = 2
    /\ result[1] # result[2]

\* The seven fields of a data point as logged, in order.
FieldTexts(d) ==
    <<d.Symbol, StrOf(d.Amount), StrOf(d.AmountValue),
      StrOfFraction(d.Percentage), StrOf(d.MinimumPrice),
      StrOf(d.MaximumPrice), StrOf(d.USDMarketCap)>>

\* C8: a call on n data points logs n lines, one per point in input order,
\* each the seven fields joined by commas, selected or not; the lines come
\* one per point taken by the first loop, and all n are there before the
\* comprehension starts its list and when the list is returned.
LogsEveryDatumBeforeSelecting ==
    /\ pc = "sel37" => (Len(log) = it - 1 /\ result = <<>> /\ ret = Unset)
    /\ (pc = "sel41" \/ Returned) => Len(log) = Len(arg)
    /\ (pc \in {"sel37", "sel41"} \/ Returned) =>
          \A k \in DOMAIN log : log[k] = Joined(FieldTexts(arg[k]))

\* C8: a call has returned one Symbol of two data points and logged both.
ReturnedOneLoggedTwo ==
    /\ Returned
    /\ Len(arg) = 2
    /\ Len(result) = 1
    /\ ~Qualifies(arg[1])
    /\ log = <<"AAPL,2500,180000,0.005,None,72,100000001",
               "MSFT,2500,180000,0.0050001,None,72,100000001">>

\* --------------------------------------------------- repeated calls
\* C5: a call of UniverseSelection whose input is the input of an earlier
\* call, whatever was called in between, comes to the output of that earlier
\* call, and returns it.
SameInputSameOutput ==
    (seen # Unset /\ seen[1] = arg) =>
        /\ (pc = "sel41" /\ it > Len(data)) => result = seen[2]
        /\ Returned => result = seen[2]

\* C5: a call is about to return a list that is not empty for the input of
\* an earlier call.
RepeatedCallAboutToReturn ==
    /\ pc = "sel41"
    /\ it > Len(data)
    /\ seen # Unset
    /\ seen[1] = arg
    /\ Len(result) = 2

\* ---------------------------------------------- OnSecuritiesChanged
\* C7: OnSecuritiesChanged logs one entry, the string of the changes record
\* it was given, returns None, and changes nothing else: not the record, the
\* settings, the universes, the history queries, or the collection and the
\* list of the last selection.
OnSecuritiesChangedOnlyLogs ==
    [][pc = "osc46" =>
          /\ log' = Append(log, ToString(changes))
          /\ Len(log') = Len(log) + 1
          /\ ret' = PyNone
          /\ UNCHANGED <<changes, config, engine, initFrame, err, selFrame,
                         seen>>]_vars

\* C7: OnSecuritiesChanged has returned after an earlier selection, whose
\* list is as it was.
LoggedChangesAfterSelection ==
    /\ pc = "idle"
    /\ ret = PyNone
    /\ changes = [added |-> <<"MSFT">>, removed |-> <<"AAPL">>]
    /\ log = <<"SecurityChanges: Added: MSFT Removed: AAPL">>
    /\ result = <<"MSFT">>
    /\ seen # Unset
    /\ seen[2] = result

====
